---- MODULE Spec2Model ----
(***************************************************************************)
(* Model of the ITF trace runner (itf/src/runner.rs, Runner::test) and of  *)
(* the tagged-value decoders (apalache-itf/src/itf.rs, the Deserialize     *)
(* impls for Itf<HashSet>, Itf<HashMap>, Itf<BigInt> and Itf<tuples>).     *)
(***************************************************************************)
EXTENDS Integers, Sequences, FiniteSets, TLC

VARIABLES trace, pc, i, actual, result, outcome, calls,
          target, json, phase, decoded

runnerVars == <<trace, pc, i, actual, result, outcome, calls>>
decodeVars == <<target, json, phase, decoded>>
vars == <<trace, pc, i, actual, result, outcome, calls,
          target, json, phase, decoded>>

(***************************************************************************)
(* Bounds                                                                  *)
(***************************************************************************)
MaxLen == 3
MaxInt == 110
MaxElems == 3
MaxPairs == 3
MaxTupLen == 4

(***************************************************************************)
(* Runner: the caller-defined associated types, as small value sets.       *)
(***************************************************************************)
ExpectedState == {"e0", "e1"}
ActualState == {"a0", "a1"}
StepResult == {"r0", "r1"}
Error == {"E1", "E2"}
None == "-"

RECURSIVE SeqsUpTo(_, _)
SeqsUpTo(S, n) ==
    IF n = 0 THEN {<<>>}
    ELSE LET shorter == SeqsUpTo(S, n - 1)
         IN  shorter \cup {Append(s, x) : s \in {t \in shorter : Len(t) = n - 1}, x \in S}

Traces == SeqsUpTo(ExpectedState, MaxLen)

\* trace.first(): an Option, as a sequence of length 0 or 1
FirstMut(t) == IF Len(t) > 0 THEN <<t[1]>> ELSE <<"e0">>
First(t) == IF Len(t) > 0 THEN <<t[1]>> ELSE <<>>

\* trace[k], 0-based as in the code
At(k) == trace[k + 1]

\* .skip(1): the first index the loop visits
FirstStepIndexMut == 1 - 1
FirstStepIndex == 1

\* assert!(cond, ...) passes exactly when cond is true
AssertInitStateMut(b) == TRUE
AssertInitState(b) == b

AssertResultMut(b) == TRUE
AssertResult(b) == b

AssertStateMut(b) == TRUE
AssertState(b) == b

Running == [kind |-> "running", err |-> None, inv |-> None, idx |-> -1]
Completed == [kind |-> "ok", err |-> None, inv |-> None, idx |-> -1]
Failed(inv, k) == [kind |-> "failed", err |-> None, inv |-> inv, idx |-> k]

\* the ? operator: return Err(e) from test
PropagateMut(e) == [kind |-> "failed", err |-> None, inv |-> "unwrap", idx |-> -1]
Propagate(e) == [kind |-> "err", err |-> e, inv |-> None, idx |-> -1]

Call(op, k, exp, act, post, res, ret, err) ==
    [op |-> op, idx |-> k, expected |-> exp, actual |-> act, post |-> post,
     result |-> res, ret |-> ret, err |-> err]

Halt(o) ==
    /\ pc' = "done"
    /\ outcome' = o

\* the for loop's iterator: visit index k if the trace has it, else fall
\* through to Ok(())
LoopTo(k) ==
    IF k < Len(trace)
    THEN /\ pc' = "step"
         /\ i' = k
         /\ outcome' = outcome
    ELSE /\ Halt(Completed)
         /\ i' = i

RunnerInit ==
    /\ trace \in Traces
    /\ pc = "start"
    /\ i = 0
    /\ actual = None
    /\ result = None
    /\ outcome = Running
    /\ calls = <<>>

\* trace.first() is None: skip the block, return Ok(())
TestEmpty ==
    /\ pc = "start"
    /\ First(trace) = <<>>
    /\ Halt(Completed)
    /\ UNCHANGED <<trace, i, actual, result, calls>>

\* let mut actual = self.init(expected_init)?;
CallInit ==
    /\ pc = "start"
    /\ First(trace) # <<>>
    /\ LET expected_init == First(trace)[1] IN
       \/ \E a \in ActualState :
             /\ calls' = Append(calls, Call("init", 0, expected_init, None, a, None, "ok", None))
             /\ actual' = a
             /\ pc' = "init_inv"
             /\ UNCHANGED outcome
       \/ \E e \in Error :
             /\ calls' = Append(calls, Call("init", 0, expected_init, None, None, None, "err", e))
             /\ Halt(Propagate(e))
             /\ UNCHANGED actual
    /\ UNCHANGED <<trace, i, result>>

\* assert!(self.state_invariant(&actual, expected_init)?, ...) and loop entry
CallStateInvariantInit ==
    /\ pc = "init_inv"
    /\ LET expected_init == First(trace)[1] IN
       \/ \E b \in BOOLEAN :
             /\ calls' = Append(calls, Call("state_invariant", 0, expected_init, actual, actual,
                                            None, IF b THEN "true" ELSE "false", None))
             /\ IF AssertInitState(b)
                THEN LoopTo(FirstStepIndex)
                ELSE Halt(Failed("state", 0)) /\ UNCHANGED i
       \/ \E e \in Error :
             /\ calls' = Append(calls, Call("state_invariant", 0, expected_init, actual, actual,
                                            None, "err", e))
             /\ Halt(Propagate(e))
             /\ UNCHANGED i
    /\ UNCHANGED <<trace, actual, result>>

\* let result = self.step(&mut actual, expected)?;
\* step may mutate actual whether it returns Ok or Err
CallStep ==
    /\ pc = "step"
    /\ \E a \in ActualState :
       /\ actual' = a
       /\ \/ \E r \in StepResult :
                /\ calls' = Append(calls, Call("step", i, At(i), actual, a, r, "ok", None))
                /\ result' = r
                /\ pc' = "result_inv"
                /\ UNCHANGED outcome
          \/ \E e \in Error :
                /\ calls' = Append(calls, Call("step", i, At(i), actual, a, None, "err", e))
                /\ Halt(Propagate(e))
                /\ UNCHANGED result
    /\ UNCHANGED <<trace, i>>

\* assert!(self.result_invariant(&result, expected)?, ...)
CallResultInvariant ==
    /\ pc = "result_inv"
    /\ \/ \E b \in BOOLEAN :
             /\ calls' = Append(calls, Call("result_invariant", i, At(i), None, None, result,
                                            IF b THEN "true" ELSE "false", None))
             /\ IF AssertResult(b)
                THEN pc' = "state_inv" /\ UNCHANGED outcome
                ELSE Halt(Failed("result", i))
       \/ \E e \in Error :
             /\ calls' = Append(calls, Call("result_invariant", i, At(i), None, None, result,
                                            "err", e))
             /\ Halt(Propagate(e))
    /\ UNCHANGED <<trace, i, actual, result>>

\* assert!(self.state_invariant(&actual, expected)?, ...) and next iteration
CallStateInvariant ==
    /\ pc = "state_inv"
    /\ \/ \E b \in BOOLEAN :
             /\ calls' = Append(calls, Call("state_invariant", i, At(i), actual, actual, None,
                                            IF b THEN "true" ELSE "false", None))
             /\ IF AssertState(b)
                THEN LoopTo(i + 1)
                ELSE Halt(Failed("state", i)) /\ UNCHANGED i
       \/ \E e \in Error :
             /\ calls' = Append(calls, Call("state_invariant", i, At(i), actual, actual, None,
                                            "err", e))
             /\ Halt(Propagate(e))
             /\ UNCHANGED i
    /\ UNCHANGED <<trace, actual, result>>

DecodeIdle ==
    /\ target = None
    /\ json = [k |-> "null", v |-> 0]
    /\ phase = "idle"
    /\ decoded = [ok |-> FALSE, err |-> None]

Init ==
    /\ RunnerInit
    /\ DecodeIdle

Next ==
    \/ TestEmpty /\ UNCHANGED decodeVars
    \/ CallInit /\ UNCHANGED decodeVars
    \/ CallStateInvariantInit /\ UNCHANGED decodeVars
    \/ CallStep /\ UNCHANGED decodeVars
    \/ CallResultInvariant /\ UNCHANGED decodeVars
    \/ CallStateInvariant /\ UNCHANGED decodeVars

Spec == Init /\ [][Next]_vars

(***************************************************************************)
(* Decoder: JSON nodes.  A node is a record [k, v]: k is the JSON kind, v  *)
(* the payload.  Strings are sequences of characters, arrays sequences of  *)
(* nodes, objects sequences of <<key, node>> entries in document order.    *)
(* Integer nodes of the model all lie inside the i64 range.                *)
(***************************************************************************)
JInt(n) == [k |-> "int", v |-> n]
JFloat == [k |-> "float", v |-> <<"1", ".", "5">>]
JBool(b) == [k |-> "bool", v |-> b]
JStr(s) == [k |-> "str", v |-> s]
JArr(a) == [k |-> "arr", v |-> a]
JObj(es) == [k |-> "obj", v |-> es]

NoErr == [kind |-> "none", expected |-> -1, found |-> -1]
ErrOf(kind) == [kind |-> kind, expected |-> -1, found |-> -1]
Ok(v) == [ok |-> TRUE, val |-> v, err |-> NoErr]
Err(e) == [ok |-> FALSE, val |-> 0, err |-> e]

Digits == <<"0", "1", "2", "3", "4", "5", "6", "7", "8", "9">>
IsDigit(c) == \E d \in 1..10 : Digits[d] = c
DigitVal(c) == (CHOOSE d \in 1..10 : Digits[d] = c) - 1

\* i64 / String / bool from a JSON node (serde primitive visitors)
DecodeI64(node) == IF node.k = "int" THEN Ok(node.v) ELSE Err(ErrOf("invalid_type"))
DecodeString(node) == IF node.k = "str" THEN Ok(node.v) ELSE Err(ErrOf("invalid_type"))
DecodeBool(node) == IF node.k = "bool" THEN Ok(node.v) ELSE Err(ErrOf("invalid_type"))

\* #[derive(Deserialize)] struct with the single field renamed to tag, no
\* deny_unknown_fields: from an object, the first entry named tag supplies
\* the field, entries with other names are ignored, a second entry named tag
\* is a duplicate-field error raised after the first was decoded; from an
\* array, the field is the first element and further elements are an
\* invalid-length error raised after it was decoded.
\* Returns the raw field node and the error still pending after its decode.
TagPositions(es, tag) == {p \in 1..Len(es) : es[p][1] = tag}
DeriveStruct(node, tag) ==
    IF node.k = "obj"
    THEN LET ps == TagPositions(node.v, tag) IN
         IF ps = {}
         THEN [ok |-> FALSE, val |-> 0, err |-> ErrOf("missing_field"), after |-> NoErr]
         ELSE LET p == CHOOSE q \in ps : \A r \in ps : q <= r IN
              [ok |-> TRUE, val |-> node.v[p][2], err |-> NoErr,
               after |-> IF Cardinality(ps) > 1 THEN ErrOf("duplicate_field") ELSE NoErr]
    ELSE IF node.k = "arr"
    THEN IF Len(node.v) = 0
         THEN [ok |-> FALSE, val |-> 0, err |-> ErrOf("invalid_length"), after |-> NoErr]
         ELSE [ok |-> TRUE, val |-> node.v[1], err |-> NoErr,
               after |-> IF Len(node.v) > 1 THEN ErrOf("invalid_length") ELSE NoErr]
    ELSE [ok |-> FALSE, val |-> 0, err |-> ErrOf("invalid_type"), after |-> NoErr]

\* the field decoded, then the struct's pending error if the field was fine
Finish(s, field) ==
    IF ~field.ok THEN field
    ELSE IF s.after # NoErr THEN Err(s.after)
    ELSE field

(***************************************************************************)
(* Itf<BigInt>                                                             *)
(***************************************************************************)
RECURSIVE Horner(_, _)
Horner(ds, acc) ==
    IF ds = <<>> THEN acc ELSE Horner(Tail(ds), acc * 10 + DigitVal(Head(ds)))

\* crate::util::serde::display_from_str with T = BigInt: a string parsed as
\* an optional '-' followed by one or more decimal digits
DisplayFromStr(node) ==
    LET str == DecodeString(node) IN
    IF ~str.ok THEN str
    ELSE LET neg == Len(str.val) > 0 /\ str.val[1] = "-"
             body == IF neg THEN Tail(str.val) ELSE str.val
         IN  IF body = <<>> \/ \E j \in 1..Len(body) : ~IsDigit(body[j])
             THEN Err(ErrOf("parse"))
             ELSE Ok(IF neg THEN 0 - Horner(body, 0) ELSE Horner(body, 0))

\* struct BI { #[serde(rename = "#bigint", with = display_from_str)] value }
DecodeBI(node) ==
    LET s == DeriveStruct(node, "#bigint") IN
    IF ~s.ok THEN Err(s.err) ELSE Finish(s, DisplayFromStr(s.val))

\* IntOrBigInt::Int(n) => BigInt::from(n)
BigIntFromI64Mut(n) == IF n < 0 THEN 0 - n ELSE n
BigIntFromI64(n) == n

\* #[serde(untagged)] enum IntOrBigInt { Int(i64), BigInt(BI) }: the variants
\* are tried in declaration order
DeserializeBigInt(node) ==
    LET int == DecodeI64(node) IN
    IF int.ok THEN Ok(BigIntFromI64(int.val))
    ELSE LET bi == DecodeBI(node) IN
         IF bi.ok THEN Ok(bi.val) ELSE Err(ErrOf("no_variant"))

(***************************************************************************)
(* Element shapes used to instantiate the generic decoders                 *)
(***************************************************************************)
DecodeElem(node, shape) ==
    CASE shape = "int" -> DecodeI64(node)
      [] shape = "str" -> DecodeString(node)
      [] shape = "bool" -> DecodeBool(node)
      [] shape = "bigint" -> DeserializeBigInt(node)

\* Vec<T>: an array whose elements are decoded in order, first error wins
RECURSIVE DecodeSeq(_, _, _)
DecodeSeq(nodes, shape, acc) ==
    IF nodes = <<>> THEN Ok(acc)
    ELSE LET e == DecodeElem(Head(nodes), shape) IN
         IF ~e.ok THEN e ELSE DecodeSeq(Tail(nodes), shape, Append(acc, e.val))

DecodeVec(node, shape) ==
    IF node.k = "arr" THEN DecodeSeq(node.v, shape, <<>>) ELSE Err(ErrOf("invalid_type"))

(***************************************************************************)
(* Itf<HashSet<T>>, with T = i64                                           *)
(***************************************************************************)
\* set.set.into_iter().collect()
CollectSet(xs) == {xs[j] : j \in 1..Len(xs)}

DeserializeSet(node) ==
    LET s == DeriveStruct(node, "#set") IN
    IF ~s.ok THEN Err(s.err)
    ELSE LET set == Finish(s, DecodeVec(s.val, "int")) IN
         IF ~set.ok THEN set ELSE Ok(CollectSet(set.val))

(***************************************************************************)
(* Itf<HashMap<K, V>>, with K = String, V = i64                            *)
(***************************************************************************)
\* (K, V): an array of exactly two elements
DecodePair(node) ==
    IF node.k # "arr" THEN Err(ErrOf("invalid_type"))
    ELSE IF Len(node.v) = 0 THEN Err(ErrOf("invalid_length"))
    ELSE LET key == DecodeString(node.v[1]) IN
         IF ~key.ok THEN key
         ELSE IF Len(node.v) = 1 THEN Err(ErrOf("invalid_length"))
         ELSE LET val == DecodeI64(node.v[2]) IN
              IF ~val.ok THEN val
              ELSE IF Len(node.v) > 2 THEN Err(ErrOf("invalid_length"))
              ELSE Ok(<<key.val, val.val>>)

RECURSIVE DecodePairs(_, _)
DecodePairs(nodes, acc) ==
    IF nodes = <<>> THEN Ok(acc)
    ELSE LET e == DecodePair(Head(nodes)) IN
         IF ~e.ok THEN e ELSE DecodePairs(Tail(nodes), Append(acc, e.val))

DecodePairVec(node) ==
    IF node.k = "arr" THEN DecodePairs(node.v, <<>>) ELSE Err(ErrOf("invalid_type"))

\* HashMap::insert: the value of an equal key is replaced
InsertMut(m, key, val) ==
    [x \in (DOMAIN m) \cup {key} |-> IF x \in DOMAIN m THEN m[x] ELSE val]
Insert(m, key, val) ==
    [x \in (DOMAIN m) \cup {key} |-> IF x = key THEN val ELSE m[x]]

\* map.elements.into_iter().collect(): insert the pairs in order
RECURSIVE CollectMap(_, _)
CollectMap(pairs, m) ==
    IF pairs = <<>> THEN m
    ELSE CollectMap(Tail(pairs), Insert(m, Head(pairs)[1], Head(pairs)[2]))

EmptyMap == [x \in {} |-> 0]

DeserializeMap(node) ==
    LET s == DeriveStruct(node, "#map") IN
    IF ~s.ok THEN Err(s.err)
    ELSE LET map == Finish(s, DecodePairVec(s.val)) IN
         IF ~map.ok THEN map ELSE Ok(CollectMap(map.val, EmptyMap))

(***************************************************************************)
(* Itf<(A, B, ...)>: deserialize_itf_tuple!                                *)
(***************************************************************************)
\* struct Tup { #[serde(rename = "#tup")] elements: Vec<serde_json::Value> }
DecodeTup(node) ==
    LET s == DeriveStruct(node, "#tup") IN
    IF ~s.ok THEN Err(s.err)
    ELSE Finish(s, IF s.val.k = "arr" THEN Ok(s.val.v) ELSE Err(ErrOf("invalid_type")))

\* if elements.len() != $len
LenMismatchMut(found, len) == found < len
LenMismatch(found, len) == found # len

ArityError(len, found) == [kind |-> "arity", expected |-> len, found |-> found]

\* $( let $ty: $ty = serde_json::from_value(take(&mut elements[$n]))?; )+
\* taken lists the positions handed to from_value
RECURSIVE DecodeElements(_, _, _, _, _)
DecodeElements(elements, shapes, n, acc, taken) ==
    IF n >= Len(shapes) THEN [ok |-> TRUE, val |-> acc, err |-> NoErr, taken |-> taken]
    ELSE LET e == DecodeElem(elements[n + 1], shapes[n + 1]) IN
         IF ~e.ok
         THEN [ok |-> FALSE, val |-> 0, err |-> e.err, taken |-> Append(taken, n)]
         ELSE DecodeElements(elements, shapes, n + 1, Append(acc, e.val), Append(taken, n))

DeserializeTuple(node, shapes) ==
    LET t == DecodeTup(node) IN
    IF ~t.ok THEN [ok |-> FALSE, val |-> 0, err |-> t.err, taken |-> <<>>]
    ELSE IF LenMismatch(Len(t.val), Len(shapes))
    THEN [ok |-> FALSE, val |-> 0, err |-> ArityError(Len(shapes), Len(t.val)), taken |-> <<>>]
    ELSE DecodeElements(t.val, shapes, 0, <<>>, <<>>)

(***************************************************************************)
(* Decoder inputs                                                          *)
(***************************************************************************)
Targets == {"Set", "Map", "BigInt", "Tup2", "Tup3"}
TupleTargets == {"Tup2", "Tup3"}
\* Itf<(i64, String)> and Itf<(Itf<BigInt>, i64, bool)>
Shapes(t) == IF t = "Tup2" THEN <<"int", "str">> ELSE <<"bigint", "int", "bool">>
TagOf(t) ==
    CASE t = "Set" -> "#set"
      [] t = "Map" -> "#map"
      [] t = "BigInt" -> "#bigint"
      [] t \in TupleTargets -> "#tup"

RECURSIVE NatToString(_)
NatToString(n) ==
    IF n < 10 THEN <<Digits[n + 1]>>
    ELSE Append(NatToString(n \div 10), Digits[(n % 10) + 1])

\* n as a decimal string
I64ToString(n) == IF n < 0 THEN <<"-">> \o NatToString(0 - n) ELSE NatToString(n)

IntRange == (0 - MaxInt)..MaxInt \cup {1024, 0 - 1024}
Malformed == {<<>>, <<"-">>, <<"1", "a">>, <<"a">>, <<"1", "-">>, <<"-", "-", "1">>}
BigIntStrings == {I64ToString(n) : n \in IntRange} \cup Malformed

BigIntObj(str) == JObj(<< <<"#bigint", JStr(str)>> >>)

SetElems == {JInt(1), JInt(2), JStr(<<"a">>)}
PairNodes ==
    {JArr(<<JStr(key), JInt(val)>>) : key \in {<<"k">>, <<"h">>}, val \in {1, 2}}
        \cup {JArr(<<JStr(<<"k">>)>>), JArr(<<JStr(<<"k">>), JInt(1), JInt(2)>>)}
TupElems == {JInt(1), JInt(2), JStr(<<"a">>), JBool(TRUE), BigIntObj(<<"7">>)}

Tagged(tag) ==
    CASE tag = "#set" -> {JArr(a) : a \in SeqsUpTo(SetElems, MaxElems)}
      [] tag = "#map" -> {JArr(a) : a \in SeqsUpTo(PairNodes, MaxPairs)}
      [] tag = "#tup" -> {JArr(a) : a \in SeqsUpTo(TupElems, MaxTupLen)}
      [] tag = "#bigint" -> {JStr(str) : str \in BigIntStrings}

Tags == {"#set", "#map", "#tup", "#bigint"}
Extra == <<"foo", JInt(0)>>

\* {tag: p}, {tag: p, "foo": 0}, {"foo": 0, tag: p}, {tag: p, tag: p},
\* {"foo": p}
ObjectsOf(tag) ==
    UNION {{JObj(<< <<tag, p>> >>),
            JObj(<< <<tag, p>>, Extra >>),
            JObj(<< Extra, <<tag, p>> >>),
            JObj(<< <<tag, p>>, <<tag, p>> >>),
            JObj(<< <<"foo", p>> >>)} : p \in Tagged(tag)}

JsonInputs ==
    {JInt(n) : n \in IntRange}
        \cup {JFloat, JBool(TRUE), JStr(<<"1">>), JArr(<<>>), JArr(<<JArr(<<JInt(1)>>)>>),
              JArr(<<JStr(<<"1">>)>>), JObj(<<>>)}
        \cup UNION {ObjectsOf(tag) : tag \in Tags}

(***************************************************************************)
(* Decoder: one decode call per behaviour                                  *)
(***************************************************************************)
RunnerIdle ==
    /\ trace = <<>>
    /\ pc = "start"
    /\ i = 0
    /\ actual = None
    /\ result = None
    /\ outcome = Running
    /\ calls = <<>>

DecodeInit ==
    /\ RunnerIdle
    /\ target \in Targets
    /\ json \in JsonInputs
    /\ phase = "pending"
    /\ decoded = [ok |-> FALSE, err |-> None]

DeserializeItfSet ==
    /\ phase = "pending"
    /\ target = "Set"
    /\ decoded' = DeserializeSet(json)
    /\ phase' = "done"
    /\ UNCHANGED <<target, json>>

DeserializeItfMap ==
    /\ phase = "pending"
    /\ target = "Map"
    /\ decoded' = DeserializeMap(json)
    /\ phase' = "done"
    /\ UNCHANGED <<target, json>>

DeserializeItfBigInt ==
    /\ phase = "pending"
    /\ target = "BigInt"
    /\ decoded' = DeserializeBigInt(json)
    /\ phase' = "done"
    /\ UNCHANGED <<target, json>>

DeserializeItfTuple ==
    /\ phase = "pending"
    /\ target \in TupleTargets
    /\ decoded' = DeserializeTuple(json, Shapes(target))
    /\ phase' = "done"
    /\ UNCHANGED <<target, json>>

DecodeNext ==
    \/ DeserializeItfSet /\ UNCHANGED runnerVars
    \/ DeserializeItfMap /\ UNCHANGED runnerVars
    \/ DeserializeItfBigInt /\ UNCHANGED runnerVars
    \/ DeserializeItfTuple /\ UNCHANGED runnerVars

DecodeSpec == DecodeInit /\ [][DecodeNext]_vars

(***************************************************************************)
(* Runner properties                                                       *)
(***************************************************************************)
CallIdx == 1..Len(calls)
Count(op) == Cardinality({j \in CallIdx : calls[j].op = op})
IsCall(j, op, k) == calls[j].op = op /\ calls[j].idx = k /\ calls[j].expected = At(k)

\* C1: fail-fast. When result_invariant or state_invariant returns false at
\* index k, test halts with a failure of that invariant at index k, that call
\* is the last operation invoked, and no operation is ever invoked for an
\* index greater than k. In particular, on a 3-state trace whose
\* state_invariant returns false on the second element the run fails at
\* index 1 and step is never invoked for the third element.
C1_FailFast ==
    /\ \A j \in CallIdx :
          (calls[j].op \in {"result_invariant", "state_invariant"} /\ calls[j].ret = "false") =>
             /\ pc = "done"
             /\ outcome = Failed(IF calls[j].op = "result_invariant" THEN "result" ELSE "state",
                                 calls[j].idx)
             /\ j = Len(calls)
             /\ \A m \in CallIdx : calls[m].idx <= calls[j].idx
    /\ (Len(trace) = 3 /\ \E j \in CallIdx : /\ calls[j].op = "state_invariant"
                                             /\ calls[j].idx = 1
                                             /\ calls[j].ret = "false") =>
          /\ outcome = Failed("state", 1)
          /\ \A m \in CallIdx : ~(calls[m].op = "step" /\ calls[m].idx = 2)

C1_Witness ==
    /\ Len(trace) = 3
    /\ pc = "done"
    /\ outcome = Failed("state", 1)
    /\ Len(calls) = 5
    /\ calls[5].op = "state_invariant" /\ calls[5].idx = 1 /\ calls[5].ret = "false"

\* C2: on an empty trace test returns Ok(()) and invokes none of init, step,
\* result_invariant, state_invariant.
C2_EmptyTrace ==
    Len(trace) = 0 =>
       /\ calls = <<>>
       /\ outcome.kind \in {"running", "ok"}
       /\ (pc = "done" => outcome = Completed)

C2_Witness == Len(trace) = 0 /\ pc = "done" /\ outcome = Completed /\ calls = <<>>

\* C3: when an operation returns an error, test returns that same error as
\* Err at once (the erroring call is the last call made), and an Err outcome
\* only ever comes from an operation's error, never from a check returning
\* false.
C3_ErrorPropagates ==
    /\ \A j \in CallIdx :
          calls[j].ret = "err" =>
             /\ pc = "done"
             /\ outcome.kind = "err"
             /\ outcome.err = calls[j].err
             /\ j = Len(calls)
    /\ outcome.kind = "err" =>
          /\ Len(calls) > 0
          /\ calls[Len(calls)].ret = "err"
          /\ \A j \in CallIdx : calls[j].ret # "false"
    /\ (\E j \in CallIdx : calls[j].ret = "false") => outcome.kind = "failed"

C3_Witness ==
    /\ pc = "done"
    /\ outcome.kind = "err"
    /\ outcome.err = "E2"
    /\ Len(calls) = 4
    /\ calls[4].op = "result_invariant" /\ calls[4].ret = "err" /\ calls[4].err = "E2"

\* C4: at every index k >= 1 the run reaches, step(actual, trace[k]) is
\* followed by result_invariant(result of that step, trace[k]) and then, only
\* if that returned true, by state_invariant(actual, trace[k]); the step for
\* index k+1 begins only after both invariants of index k returned true.
C4_StepOrder ==
    /\ \A j \in CallIdx :
          calls[j].op = "step" =>
             LET k == calls[j].idx IN
             /\ k \in 1..(Len(trace) - 1)
             /\ calls[j].expected = At(k)
             /\ j = 3 * k
             /\ (j + 1 \in CallIdx =>
                    /\ calls[j].ret = "ok"
                    /\ IsCall(j + 1, "result_invariant", k)
                    /\ calls[j + 1].result = calls[j].result)
             /\ (j + 2 \in CallIdx =>
                    /\ calls[j + 1].ret = "true"
                    /\ IsCall(j + 2, "state_invariant", k)
                    /\ calls[j + 2].actual = calls[j].post)
             /\ (k > 1 =>
                    /\ IsCall(j - 3, "step", k - 1)
                    /\ IsCall(j - 2, "result_invariant", k - 1) /\ calls[j - 2].ret = "true"
                    /\ IsCall(j - 1, "state_invariant", k - 1) /\ calls[j - 1].ret = "true")
    /\ \A j \in CallIdx :
          (calls[j].op = "result_invariant" \/ (calls[j].op = "state_invariant" /\ calls[j].idx > 0)) =>
             \E m \in 1..(j - 1) : calls[m].op = "step" /\ calls[m].idx = calls[j].idx /\ m >= j - 2

C4_Witness ==
    /\ Len(trace) = 3
    /\ Len(calls) = 8
    /\ calls[3].op = "step" /\ calls[4].op = "result_invariant" /\ calls[5].op = "state_invariant"
    /\ calls[6].op = "step" /\ calls[6].idx = 2
    /\ calls[3].post # calls[3].actual

\* C5: on a non-empty trace init is called exactly once, first, with
\* trace[0]; the next call is state_invariant(actual, trace[0]); no step or
\* result_invariant call is made for index 0; and when that state_invariant
\* returns false the run halts in Failed(0) with no step invoked.
C5_Initialization ==
    Len(trace) >= 1 =>
       /\ (pc = "start" <=> calls = <<>>)
       /\ (Len(calls) >= 1 =>
              /\ calls[1].op = "init" /\ calls[1].idx = 0 /\ calls[1].expected = trace[1])
       /\ \A j \in CallIdx : calls[j].op = "init" => j = 1
       /\ (Len(calls) >= 2 =>
              /\ calls[1].ret = "ok"
              /\ calls[2].op = "state_invariant" /\ calls[2].idx = 0
              /\ calls[2].expected = trace[1]
              /\ calls[2].actual = calls[1].post)
       /\ \A j \in CallIdx : calls[j].idx = 0 => j <= 2
       /\ \A j \in CallIdx : calls[j].op \in {"step", "result_invariant"} => calls[j].idx >= 1
       /\ ((Len(calls) >= 2 /\ calls[2].ret = "false") =>
              /\ pc = "done"
              /\ outcome = Failed("state", 0)
              /\ Len(calls) = 2)

C5_Witness ==
    /\ Len(trace) = 2
    /\ pc = "done"
    /\ outcome = Failed("state", 0)
    /\ Len(calls) = 2
    /\ calls[1].op = "init" /\ calls[2].op = "state_invariant" /\ calls[2].ret = "false"

\* C10: on a trace of length L >= 1 test ends in Completed exactly when no
\* call returned an error and every invariant returned true; then init ran
\* once, step L-1 times for trace[1..L-1] in increasing order on the one
\* actual state, result_invariant L-1 times and state_invariant L times.
C10_Completed ==
    (pc = "done" /\ Len(trace) >= 1) =>
       LET L == Len(trace) IN
       /\ outcome.kind = "ok" <=> (\A j \in CallIdx : calls[j].ret \in {"ok", "true"})
       /\ outcome.kind = "ok" =>
             /\ Count("init") = 1
             /\ Count("step") = L - 1
             /\ Count("result_invariant") = L - 1
             /\ Count("state_invariant") = L
             /\ Len(calls) = 3 * L - 1
             /\ \A k \in 1..(L - 1) :
                   /\ IsCall(3 * k, "step", k)
                   /\ calls[3 * k].actual = calls[IF k = 1 THEN 1 ELSE 3 * (k - 1)].post
                   /\ calls[3 * k + 2].actual = calls[3 * k].post
             /\ actual = calls[IF L = 1 THEN 1 ELSE 3 * (L - 1)].post

C10_Witness ==
    /\ Len(trace) = 3
    /\ pc = "done"
    /\ outcome = Completed
    /\ Count("step") = 2
    /\ Count("state_invariant") = 3

(***************************************************************************)
(* Decoder properties                                                      *)
(***************************************************************************)
Done(t) == phase = "done" /\ target = t
\* the node is exactly {tag: payload}
OnlyTag(node, tag) == node.k = "obj" /\ Len(node.v) = 1 /\ node.v[1][1] = tag

\* C6: a decode of a tagged object succeeds only when the object has exactly
\* the one recognized tag key; any extra key alongside the tag is an error.
C6_ExactlyOneKey ==
    (phase = "done" /\ json.k = "obj" /\ decoded.ok) => OnlyTag(json, TagOf(target))

\* C7: for every JSON integer n in the i64 range, decoding n as Big Integer
\* succeeds and yields the same value as decoding {"#bigint": "<n in decimal>"}.
C7_BigIntAgree ==
    (Done("BigInt") /\ json.k = "int") =>
       /\ decoded.ok
       /\ decoded = DeserializeBigInt(BigIntObj(I64ToString(json.v)))

C7_Witness ==
    /\ Done("BigInt")
    /\ json = JInt(0 - 1024)
    /\ decoded.ok
    /\ decoded.val = 0 - 1024
    /\ I64ToString(json.v) = <<"-", "1", "0", "2", "4">>

WellFormedPair(n) ==
    n.k = "arr" /\ Len(n.v) = 2 /\ n.v[1].k = "str" /\ n.v[2].k = "int"

\* C8: decoding {"#map": [[k, v], ...]} gives a map with exactly one entry
\* per distinct key of the array, each key mapped to the value of the last
\* pair of the array that carries it.
C8_LastWriteWins ==
    (/\ Done("Map")
     /\ OnlyTag(json, "#map")
     /\ json.v[1][2].k = "arr"
     /\ \A p \in 1..Len(json.v[1][2].v) : WellFormedPair(json.v[1][2].v[p])) =>
       LET pairs == json.v[1][2].v
           keys == {pairs[p].v[1].v : p \in 1..Len(pairs)}
           last(key) == CHOOSE p \in 1..Len(pairs) :
                           /\ pairs[p].v[1].v = key
                           /\ \A q \in 1..Len(pairs) : pairs[q].v[1].v = key => q <= p
       IN  /\ decoded.ok
           /\ DOMAIN decoded.val = keys
           /\ \A key \in keys : decoded.val[key] = pairs[last(key)].v[2].v

C8_Witness ==
    /\ Done("Map")
    /\ json = JObj(<< <<"#map", JArr(<<JArr(<<JStr(<<"k">>), JInt(1)>>),
                                       JArr(<<JStr(<<"k">>), JInt(2)>>)>>)>> >>)
    /\ decoded.ok
    /\ DOMAIN decoded.val = {<<"k">>}
    /\ decoded.val[<<"k">>] = 2

\* C9: decoding {"#tup": [...]} against arity N fails with the arity error
\* (expected N, found the array's length) and decodes no element when the
\* length differs from N; when the length is N, elements are decoded in
\* position order, each against its positional shape, and a successful
\* result holds each decoded element at its own position.
C9_TupleArity ==
    (/\ phase = "done"
     /\ target \in TupleTargets
     /\ OnlyTag(json, "#tup")
     /\ json.v[1][2].k = "arr") =>
       LET shapes == Shapes(target)
           N == Len(shapes)
           elements == json.v[1][2].v
       IN  /\ Len(elements) # N =>
                 /\ ~decoded.ok
                 /\ decoded.err = [kind |-> "arity", expected |-> N, found |-> Len(elements)]
                 /\ decoded.taken = <<>>
           /\ Len(elements) = N =>
                 /\ decoded.err.kind # "arity"
                 /\ Len(decoded.taken) >= 1
                 /\ \A p \in 1..Len(decoded.taken) : decoded.taken[p] = p - 1
                 /\ decoded.ok <=> \A p \in 1..N : DecodeElem(elements[p], shapes[p]).ok
                 /\ decoded.ok =>
                       /\ Len(decoded.val) = N
                       /\ Len(decoded.taken) = N
                       /\ \A p \in 1..N : Ok(decoded.val[p]) = DecodeElem(elements[p], shapes[p])

C9_Witness ==
    /\ Done("Tup3")
    /\ json = JObj(<< <<"#tup", JArr(<<JInt(1), JInt(2)>>)>> >>)
    /\ ~decoded.ok
    /\ decoded.err = [kind |-> "arity", expected |-> 3, found |-> 2]
    /\ decoded.taken = <<>>

====
